---------------------------- MODULE Spec2Model ----------------------------
(***************************************************************************)
(* Model of the vehicle inventory application in src/incode.py.           *)
(*                                                                         *)
(* Every browser session runs main() in a thread of its own; the sessions *)
(* share the Firestore collection 'vehicles', the 'backups' collection,   *)
(* the process-wide Firebase app registry and the st.cache_data cache of  *)
(* load_data.  One run of main() is: load_data, then the selected page;   *)
(* a submitted form calls add_vehicle or update_vehicle and, on success,  *)
(* st.cache_data.clear().  Every Firestore call is one atomic step.       *)
(*                                                                         *)
(* Money is held in thousandths of a dollar, so that price and market     *)
(* value of whole-dollar inputs are exact integers.  The audit stamps     *)
(* Added_Date and Updated_Date are not part of the modelled documents.    *)
(***************************************************************************)
EXTENDS Integers, Sequences, FiniteSets, TLC

VARIABLES
    apps,       \* firebase_admin._apps is non-empty (the app is initialised)
    vehicles,   \* Firestore collection 'vehicles': document id -> document
    backups,    \* Firestore collection 'backups': timestamp -> snapshot
    clock,      \* datetime.now(), in whole seconds
    cache,      \* st.cache_data entry of load_data: NoCache or a frame
    pc,         \* per session: position in the run of main()
    df,         \* per session: the frame load_data returned to this run
    req,        \* per session: the operation the submitted form asked for
    result,     \* per session: how that operation ended
    handle,     \* per session: what create_backup returned to this run
    ops,        \* number of requests that went on to a Firestore write
    call        \* a direct call of validate_vin or calculate_market_value

vars == <<apps, vehicles, backups, clock, cache, pc, df, req, result, handle, ops, call>>

---------------------------------------------------------------------------
(* Bounds of the model *)

NSessions == 2
MaxDocs == 2
MaxClock == 1
MaxOps == 3

Sessions == 1..NSessions
DocIds == 1..MaxDocs

---------------------------------------------------------------------------
(* VINs and validate_vin *)

VinLength == 17

\* the character class [A-HJ-NPR-Z0-9]
VinAlphabet ==
    {"A", "B", "C", "D", "E", "F", "G", "H", "J", "K", "L", "M", "N", "P", "R",
     "S", "T", "U", "V", "W", "X", "Y", "Z",
     "0", "1", "2", "3", "4", "5", "6", "7", "8", "9"}

Repeat(c, n) == [i \in 1..n |-> c]

BlankVin == << >>
VinA == Repeat("A", VinLength)
VinB == Repeat("B", VinLength)
ShortVin == Repeat("A", VinLength - 1)
VinWithI == [i \in 1..VinLength |-> IF i = 1 THEN "I" ELSE "A"]
VinNewline == [i \in 1..(VinLength + 1) |-> IF i > VinLength THEN "\n" ELSE "A"]

VinInputs == {BlankVin, VinA, VinB, ShortVin}

\* validate_vin that only refuses the empty VIN
AcceptAnyVin(vin) == vin # << >>

\* re '^[A-HJ-NPR-Z0-9]{17}$' with match(): '$' also matches just before a
\* newline that ends the string
validate_vin(vin) ==
    /\ vin # << >>
    /\ Len(vin) >= VinLength
    /\ \A i \in 1..VinLength : vin[i] \in VinAlphabet
    /\ \/ Len(vin) = VinLength
       \/ Len(vin) = VinLength + 1 /\ vin[VinLength + 1] = "\n"

---------------------------------------------------------------------------
(* calculate_market_value *)

Dollars(n) == n * 1000

\* a raw input: a number, or the text of an input box
Num(n) == [kind |-> "num", val |-> n]
Blank == [kind |-> "blank", val |-> 0]
BadText == [kind |-> "bad", val |-> 0]
NoInput == [kind |-> "none", val |-> 0]

\* Python truthiness: None, "" and 0 are false
Truthy(x) == x.kind = "bad" \/ (x.kind = "num" /\ x.val # 0)

\* float(x) raises ValueError
FloatRaises(x) == x.kind = "bad"

FloatOrZero(x) == IF Truthy(x) THEN x.val ELSE 0

NoneTriple == [ok |-> FALSE, cost |-> 0, price |-> 0, market_value |-> 0,
               warning |-> FALSE]

\* calculate_market_value with the markup left out of the price
CalculateWithoutMarkup(vehicle_cost, parts_cost, labour_cost, markup, manual) ==
    IF \E x \in {vehicle_cost, parts_cost, labour_cost, markup} :
           Truthy(x) /\ FloatRaises(x)
    THEN NoneTriple
    ELSE LET cost == FloatOrZero(vehicle_cost) + FloatOrZero(parts_cost)
                         + FloatOrZero(labour_cost)
             price == cost
             default == (price * 11) \div 10
             given == manual.kind \notin {"none", "blank"}
         IN  [ok |-> TRUE, cost |-> cost, price |-> price,
              market_value |-> IF given /\ ~FloatRaises(manual)
                               THEN manual.val ELSE default,
              warning |-> given /\ FloatRaises(manual)]

\* calculate_market_value with the inner try left out: an override that does
\* not parse ends the computation
CalculateOverrideFatal(vehicle_cost, parts_cost, labour_cost, markup, manual) ==
    IF \E x \in {vehicle_cost, parts_cost, labour_cost, markup} :
           Truthy(x) /\ FloatRaises(x)
    THEN NoneTriple
    ELSE IF manual.kind \notin {"none", "blank"} /\ FloatRaises(manual)
    THEN NoneTriple
    ELSE LET cost == FloatOrZero(vehicle_cost) + FloatOrZero(parts_cost)
                         + FloatOrZero(labour_cost)
             price == (cost * (100 + FloatOrZero(markup))) \div 100
             default == (price * 11) \div 10
             given == manual.kind \notin {"none", "blank"}
         IN  [ok |-> TRUE, cost |-> cost, price |-> price,
              market_value |-> IF given THEN manual.val ELSE default,
              warning |-> FALSE]

calculate_market_value(vehicle_cost, parts_cost, labour_cost, markup, manual) ==
    IF \E x \in {vehicle_cost, parts_cost, labour_cost, markup} :
           Truthy(x) /\ FloatRaises(x)
    THEN NoneTriple
    ELSE LET cost == FloatOrZero(vehicle_cost) + FloatOrZero(parts_cost)
                         + FloatOrZero(labour_cost)
             price == (cost * (100 + FloatOrZero(markup))) \div 100
             default == (price * 11) \div 10
             given == manual.kind \notin {"none", "blank"}
         IN  [ok |-> TRUE, cost |-> cost, price |-> price,
              market_value |-> IF given /\ ~FloatRaises(manual)
                               THEN manual.val ELSE default,
              warning |-> given /\ FloatRaises(manual)]

---------------------------------------------------------------------------
(* Documents and frames *)

\* dict.update / Firestore update(): the patch's fields replace or extend
Merge(patch, doc) ==
    [k \in (DOMAIN patch) \cup (DOMAIN doc) |->
        IF k \in DOMAIN patch THEN patch[k] ELSE doc[k]]

\* key.replace(" ", "_") on the field names the application uses
SanitizedKey(key) ==
    CASE key = "Model Year" -> "Model_Year"
      [] key = "VEHCLE COST" -> "VEHCLE_COST"
      [] key = "Parts Cost" -> "Parts_Cost"
      [] key = "Labour Cost" -> "Labour_Cost"
      [] key = "Title State" -> "Title_State"
      [] key = "Mark Up" -> "Mark_Up"
      [] key = "Market Value" -> "Market_Value"
      [] OTHER -> key

Sanitize(vehicle_data) ==
    [k \in {SanitizedKey(key) : key \in DOMAIN vehicle_data} |->
        vehicle_data[CHOOSE key \in DOMAIN vehicle_data : SanitizedKey(key) = k]]

\* the empty DataFrame load_data builds when there is nothing to show
EmptyFrame == << >>

NoCache == [valid |-> FALSE, frame |-> EmptyFrame]
Cached(frame) == [valid |-> TRUE, frame |-> frame]

\* vehicle.get(key, default) on a row of the frame
Get(row, key, default) == IF key \in DOMAIN row THEN row[key] ELSE default

\* df[df["Status"] != "Sold"]
NotSold(frame) == {i \in DOMAIN frame : frame[i]["Status"] # "Sold"}

\* db.collection('vehicles').where('VIN', '==', vin).limit(1).get()
WhereVin(vin) ==
    LET hits == {i \in DOMAIN vehicles : vehicles[i]["VIN"] = vin}
    IN  IF hits = {} THEN {}
        ELSE {CHOOSE i \in hits : \A j \in hits : i <= j}

---------------------------------------------------------------------------
(* Requests and outcomes *)

NoDoc == 0
NoReq == [op |-> "none", vin |-> BlankVin, data |-> << >>, doc |-> NoDoc]
Request(op, vin, data, doc) == [op |-> op, vin |-> vin, data |-> data, doc |-> doc]

NoHandle == [state |-> "not_called", ts |-> 0]
FailedHandle == [state |-> "none", ts |-> 0]

\* no direct call of a function is under way
NoCall == [fn |-> "none", args |-> << >>, done |-> FALSE, ret |-> << >>]

\* initialize_firebase: true once the app is registered; otherwise it tries
\* the key file, which the environment decides
InitOutcomes == IF apps THEN {TRUE} ELSE {TRUE, FALSE}

Init ==
    /\ apps = FALSE
    /\ vehicles = << >>
    /\ backups = << >>
    /\ clock = 0
    /\ cache = NoCache
    /\ pc = [s \in Sessions |-> "start"]
    /\ df = [s \in Sessions |-> EmptyFrame]
    /\ req = [s \in Sessions |-> NoReq]
    /\ result = [s \in Sessions |-> "none"]
    /\ handle = [s \in Sessions |-> NoHandle]
    /\ ops = 0
    /\ call = NoCall


---------------------------------------------------------------------------
(* What the forms can be given *)

Makes == {"", "Ford"}
Modes == {"", "F150"}
ModelYears == {2024}
Mileages == {0}
VehicleCosts == {Dollars(1), Dollars(2)}
PartsCosts == {Dollars(0)}
LabourCosts == {Dollars(0)}
TitleStates == {"TX"}
StatusOptions == {"Available"}
Markups == {10}
ManualInputs == {Blank}
SoldPrices == {Dollars(2), Dollars(3)}
SoldDates == {"2024-03-01"}
SaleNotes == {""}

\* fetch_vehicle_details: None, or the decoded make, model and year
NoDetails == [found |-> FALSE, make |-> "", model |-> "", year |-> 0]
LookupResults == {NoDetails, [found |-> TRUE, make |-> "Ford", model |-> "F150", year |-> 2024]}

\* number_input("Model Year", min_value=1900, max_value=datetime.now().year + 1)
MinModelYear == 1900
CurrentYear == 2024

\* what the decoder may answer: also a year the form would not accept
LookupAnswers ==
    LookupResults \cup
    {[found |-> TRUE, make |-> "Ford", model |-> "F150", year |-> CurrentYear + 2]}

---------------------------------------------------------------------------
(* One run of main() *)

\* a run that ends without a write and goes on to clear the cache
FinishAndClear(s, r, outcome) ==
    /\ pc' = [pc EXCEPT ![s] = "clear"]
    /\ df' = [df EXCEPT ![s] = EmptyFrame]
    /\ req' = [req EXCEPT ![s] = r]
    /\ result' = [result EXCEPT ![s] = outcome]
    /\ UNCHANGED ops

\* how a run ends without a write pending: the outcome is kept for the caller
Finish(s, r, outcome) ==
    /\ pc' = [pc EXCEPT ![s] = "start"]
    /\ df' = [df EXCEPT ![s] = EmptyFrame]
    /\ req' = [req EXCEPT ![s] = r]
    /\ result' = [result EXCEPT ![s] = outcome]
    /\ UNCHANGED ops

\* the request goes on to its Firestore write, at position next
Proceed(s, r, next) ==
    /\ ops < MaxOps
    /\ pc' = [pc EXCEPT ![s] = next]
    /\ df' = [df EXCEPT ![s] = EmptyFrame]
    /\ req' = [req EXCEPT ![s] = r]
    /\ result' = [result EXCEPT ![s] = "pending"]
    /\ ops' = ops + 1

\* load_data behind st.cache_data(ttl=300): the cached frame if there is
\* one, else the body, whose return value (also the fallback frame) is cached
Load(s) ==
    /\ pc[s] = "start"
    /\ IF cache.valid
       THEN /\ df' = [df EXCEPT ![s] = cache.frame]
            /\ UNCHANGED <<apps, cache>>
       ELSE \E init \in InitOutcomes, raises \in BOOLEAN :
               LET frame == IF init /\ ~raises THEN vehicles ELSE EmptyFrame
               IN  /\ apps' = (apps \/ init)
                   /\ cache' = Cached(frame)
                   /\ df' = [df EXCEPT ![s] = frame]
    /\ pc' = [pc EXCEPT ![s] = "page"]
    /\ req' = [req EXCEPT ![s] = NoReq]
    /\ result' = [result EXCEPT ![s] = "none"]
    /\ handle' = [handle EXCEPT ![s] = NoHandle]
    /\ UNCHANGED <<vehicles, backups, clock, ops, call>>

\* ttl=300: the cached frame expires
Expire ==
    /\ cache.valid
    /\ cache' = NoCache
    /\ UNCHANGED <<apps, vehicles, backups, clock, pc, df, req, result, handle, ops, call>>

\* a page that only shows the frame, or a form that is not submitted
Render(s) ==
    /\ pc[s] = "page"
    /\ Finish(s, NoReq, "none")
    /\ UNCHANGED <<apps, vehicles, backups, clock, cache, handle, ops, call>>

\* the record main() builds for add_vehicle
NewVehicle(make, mode, model_year, vin, mileage, vehicle_cost, parts_cost, labour_cost, title_state, status, markup, calc) ==
    [k \in {"Make", "Mode", "Model Year", "VIN", "Mileage", "VEHCLE COST",
            "Parts Cost", "Labour Cost", "Title State", "Status", "Cost",
            "Mark Up", "Price", "Market Value", "Calling", "Remark"} |->
        CASE k = "Make" -> make
          [] k = "Mode" -> mode
          [] k = "Model Year" -> model_year
          [] k = "VIN" -> vin
          [] k = "Mileage" -> mileage
          [] k = "VEHCLE COST" -> vehicle_cost
          [] k = "Parts Cost" -> parts_cost
          [] k = "Labour Cost" -> labour_cost
          [] k = "Title State" -> title_state
          [] k = "Status" -> status
          [] k = "Cost" -> calc.cost
          [] k = "Mark Up" -> markup
          [] k = "Price" -> calc.price
          [] k = "Market Value" -> calc.market_value
          [] k = "Calling" -> ""
          [] k = "Remark" -> ""]

\* add_vehicle without its existence query
AddCheckNoQuery(vin, init, raises) ==
    IF ~init THEN "init_failed"
    ELSE IF raises THEN "error"
    ELSE "pending"

\* add_vehicle up to its existence query: the outcome, "pending" when the
\* insert is to follow
AddCheck(vin, init, raises) ==
    IF ~init THEN "init_failed"
    ELSE IF raises THEN "error"
    ELSE IF vin # BlankVin /\ WhereVin(vin) # {} THEN "exists"
    ELSE "pending"

\* page "Add New Vehicle", form submitted, from the answer of the VIN lookup
\* on: the details fill the form, the form is validated, and add_vehicle runs
\* up to its existence query
AddVehicleForm(s, vin, make0, mode0, details) ==
    LET make == IF details.found /\ make0 = "" /\ details.make # ""
                THEN details.make ELSE make0
        mode == IF details.found /\ mode0 = "" /\ details.model # ""
                THEN details.model ELSE mode0
        failed == Request("add", vin, << >>, NoDoc)
    IN  IF make = "" \/ mode = "" \/ vin = BlankVin
        THEN Finish(s, failed, "required") /\ UNCHANGED apps
        ELSE IF ~validate_vin(vin)
        THEN Finish(s, failed, "invalid_vin") /\ UNCHANGED apps
        ELSE \E init \in InitOutcomes, raises \in BOOLEAN :
             /\ apps' = (apps \/ init)
             /\ IF AddCheck(vin, init, raises) # "pending"
                THEN Finish(s, failed, AddCheck(vin, init, raises))
                ELSE \E model_year0 \in ModelYears, mileage \in Mileages,
                        vehicle_cost \in VehicleCosts, parts_cost \in PartsCosts,
                        labour_cost \in LabourCosts, title_state \in TitleStates,
                        status \in StatusOptions, markup \in Markups,
                        manual \in ManualInputs :
                     LET calc == calculate_market_value(Num(vehicle_cost),
                                     Num(parts_cost), Num(labour_cost),
                                     Num(markup), manual)
                         model_year == IF details.found /\ details.year # 0
                                       THEN details.year ELSE model_year0
                         new_vehicle == NewVehicle(make, mode, model_year, vin,
                                            mileage, vehicle_cost, parts_cost,
                                            labour_cost, title_state, status,
                                            markup, calc)
                     IN  Proceed(s, Request("add", vin, new_vehicle, NoDoc),
                                 "add_insert")

\* page "Add New Vehicle", form submitted, with a VIN lookup that answers
\* (when the box is ticked and the VIN is valid)
AddSubmit(s) ==
    /\ pc[s] = "page"
    /\ \E vin \in VinInputs, make0 \in Makes, mode0 \in Modes, lookup_vin \in BOOLEAN :
       \E details \in (IF lookup_vin /\ vin # BlankVin /\ validate_vin(vin)
                       THEN LookupResults ELSE {NoDetails}) :
           AddVehicleForm(s, vin, make0, mode0, details)
    /\ UNCHANGED <<vehicles, backups, clock, cache, handle, call>>

\* add_vehicle whose insert stores the document and raises all the same
InsertThenRaise(s) ==
    /\ pc[s] = "add_insert"
    /\ \E id \in DocIds \ DOMAIN vehicles :
          /\ vehicles' = [i \in (DOMAIN vehicles) \cup {id} |->
                             IF i = id THEN req[s].data ELSE vehicles[i]]
          /\ Finish(s, Request("add", req[s].vin, << >>, NoDoc), "error")
    /\ UNCHANGED <<apps, backups, clock, cache, handle, call>>

\* add_vehicle: db.collection('vehicles').add(vehicle_data), under a fresh
\* document id
AddInsert(s) ==
    /\ pc[s] = "add_insert"
    /\ \/ /\ Finish(s, Request("add", req[s].vin, << >>, NoDoc), "error")
          /\ UNCHANGED vehicles
       \/ \E id \in DocIds \ DOMAIN vehicles :
             /\ vehicles' = [i \in (DOMAIN vehicles) \cup {id} |->
                                IF i = id THEN req[s].data ELSE vehicles[i]]
             /\ pc' = [pc EXCEPT ![s] = "clear"]
             /\ req' = [req EXCEPT ![s] = Request("add", req[s].vin, << >>, id)]
             /\ result' = [result EXCEPT ![s] = "ok"]
             /\ UNCHANGED <<df, ops>>
    /\ UNCHANGED <<apps, backups, clock, cache, handle, ops, call>>

\* edit_df[edit_df["VIN"] == vin].iloc[0]: the first row of the selection
\* that carries the VIN
FirstRow(frame, rows, vin) ==
    frame[CHOOSE i \in rows : /\ frame[i]["VIN"] = vin
                              /\ \A j \in rows : frame[j]["VIN"] = vin => i <= j]

\* the record main() builds for update_vehicle on the page "Edit Vehicle"
UpdatedVehicle(make, mode, model_year, mileage, vehicle_cost, parts_cost, labour_cost, title_state, status, markup, calc) ==
    [k \in {"Make", "Mode", "Model Year", "Mileage", "VEHCLE COST",
            "Parts Cost", "Labour Cost", "Title State", "Status", "Cost",
            "Mark Up", "Price", "Market Value", "Calling", "Remark"} |->
        CASE k = "Make" -> make
          [] k = "Mode" -> mode
          [] k = "Model Year" -> model_year
          [] k = "Mileage" -> mileage
          [] k = "VEHCLE COST" -> vehicle_cost
          [] k = "Parts Cost" -> parts_cost
          [] k = "Labour Cost" -> labour_cost
          [] k = "Title State" -> title_state
          [] k = "Status" -> status
          [] k = "Cost" -> calc.cost
          [] k = "Mark Up" -> markup
          [] k = "Price" -> calc.price
          [] k = "Market Value" -> calc.market_value
          [] k = "Calling" -> ""
          [] k = "Remark" -> ""]

\* profit / cost * 100 if cost > 0 else 0, in hundredths of a percent
ProfitPercentage(profit, cost) ==
    IF cost > 0 THEN (profit * 10000) \div cost ELSE 0

\* the record main() builds for update_vehicle on the page "Mark as Sold"
SoldVehicleData(sold_price, sold_date, cost, sale_notes) ==
    [k \in {"Status", "Sold_Price", "Sold_Date", "Profit", "Profit_Percentage",
            "Sale_Notes"} |->
        CASE k = "Status" -> "Sold"
          [] k = "Sold_Price" -> sold_price
          [] k = "Sold_Date" -> sold_date
          [] k = "Profit" -> sold_price - cost
          [] k = "Profit_Percentage" -> ProfitPercentage(sold_price - cost, cost)
          [] k = "Sale_Notes" -> sale_notes]

\* update_vehicle up to its query: the outcome, "pending" when the update of
\* the document found is to follow
UpdateCheck(vin, init, raises) ==
    IF ~init THEN "init_failed"
    ELSE IF raises THEN "error"
    ELSE IF WhereVin(vin) = {} THEN "not_found"
    ELSE "pending"

\* update_vehicle(vin, vehicle_data) up to its query; the field names of the
\* data are sanitized for the update that follows
UpdateVehicle(s, op, vin, vehicle_data) ==
    \E init \in InitOutcomes, raises \in BOOLEAN :
        /\ apps' = (apps \/ init)
        /\ IF UpdateCheck(vin, init, raises) # "pending"
           THEN Finish(s, Request(op, vin, << >>, NoDoc), UpdateCheck(vin, init, raises))
           ELSE \E doc \in WhereVin(vin) :
                    Proceed(s, Request(op, vin, Sanitize(vehicle_data), doc), "upd_write")

\* page "Edit Vehicle", form submitted: the form is filled from the row of
\* the frame, validated, and update_vehicle runs up to its query
EditSubmit(s) ==
    /\ pc[s] = "page"
    /\ \E vin \in {df[s][i]["VIN"] : i \in NotSold(df[s])} :
        LET vehicle_data == FirstRow(df[s], NotSold(df[s]), vin)
            current_market_value == Get(vehicle_data, "Market Value", 0)
        IN  \E make \in Makes \cup {Get(vehicle_data, "Make", "")},
               mode \in Modes \cup {Get(vehicle_data, "Mode", "")} :
            IF make = "" \/ mode = ""
            THEN Finish(s, Request("edit", vin, << >>, NoDoc), "required")
                 /\ UNCHANGED apps
            ELSE \E model_year \in ModelYears \cup {Get(vehicle_data, "Model Year", 2024)},
                    mileage \in Mileages \cup {Get(vehicle_data, "Mileage", 0)},
                    vehicle_cost \in VehicleCosts \cup {Get(vehicle_data, "VEHCLE COST", 0)},
                    parts_cost \in PartsCosts \cup {Get(vehicle_data, "Parts Cost", 0)},
                    labour_cost \in LabourCosts \cup {Get(vehicle_data, "Labour Cost", 0)},
                    title_state \in TitleStates \cup {Get(vehicle_data, "Title State", "")},
                    status \in StatusOptions,
                    markup \in Markups \cup {Get(vehicle_data, "Mark Up", 10)},
                    manual \in ManualInputs \cup
                               {IF current_market_value # 0
                                THEN Num(current_market_value) ELSE Blank} :
                 UpdateVehicle(s, "edit", vin,
                     UpdatedVehicle(make, mode, model_year, mileage, vehicle_cost,
                         parts_cost, labour_cost, title_state, status, markup,
                         calculate_market_value(Num(vehicle_cost), Num(parts_cost),
                             Num(labour_cost), Num(markup), manual)))
    /\ UNCHANGED <<vehicles, backups, clock, cache, handle, call>>

\* page "Mark as Sold", form submitted: profit from the cost in the row of
\* the frame, then update_vehicle up to its query
SoldSubmit(s) ==
    /\ pc[s] = "page"
    /\ \E vin \in {df[s][i]["VIN"] : i \in NotSold(df[s])} :
        LET vehicle_data == FirstRow(df[s], NotSold(df[s]), vin)
            cost == Get(vehicle_data, "Cost", 0)
        IN  \E sold_price \in SoldPrices, sold_date \in SoldDates,
               sale_notes \in SaleNotes :
                UpdateVehicle(s, "sold", vin,
                    SoldVehicleData(sold_price, sold_date, cost, sale_notes))
    /\ UNCHANGED <<vehicles, backups, clock, cache, handle, call>>

\* update_vehicle that updates every document of the collection
UpdWriteAll(s) ==
    /\ pc[s] = "upd_write"
    /\ vehicles' = [i \in DOMAIN vehicles |-> Merge(req[s].data, vehicles[i])]
    /\ pc' = [pc EXCEPT ![s] = "clear"]
    /\ req' = [req EXCEPT ![s] = Request(req[s].op, req[s].vin, << >>, req[s].doc)]
    /\ result' = [result EXCEPT ![s] = "ok"]
    /\ UNCHANGED <<apps, backups, clock, cache, handle, df, ops, call>>

\* update_vehicle: doc_ref.update(sanitized_data) on the document found
UpdWrite(s) ==
    /\ pc[s] = "upd_write"
    /\ \/ /\ Finish(s, Request(req[s].op, req[s].vin, << >>, NoDoc), "error")
          /\ UNCHANGED vehicles
       \/ /\ vehicles' = [vehicles EXCEPT ![req[s].doc] = Merge(req[s].data, @)]
          /\ pc' = [pc EXCEPT ![s] = "clear"]
          /\ req' = [req EXCEPT ![s] = Request(req[s].op, req[s].vin, << >>, req[s].doc)]
          /\ result' = [result EXCEPT ![s] = "ok"]
          /\ UNCHANGED <<df, ops>>
    /\ UNCHANGED <<apps, backups, clock, cache, handle, ops, call>>

\* st.cache_data.clear() after the write succeeded; the run ends
ClearCache(s) ==
    /\ pc[s] = "clear"
    /\ cache' = NoCache
    /\ pc' = [pc EXCEPT ![s] = "start"]
    /\ UNCHANGED <<apps, vehicles, backups, clock, df, req, result, handle, ops, call>>

---------------------------------------------------------------------------
(* create_backup, which main() never calls: a caller of the module's       *)
(* functions takes the snapshot of its frame before it submits a write     *)

\* df.drop(columns=['document_id']).to_dict('records'): the rows in order
Records(frame) ==
    LET ids == DOMAIN frame
    IN  [r \in 1..Cardinality(ids) |->
            frame[CHOOSE i \in ids : Cardinality({j \in ids : j < i}) + 1 = r]]

\* datetime.now().strftime("%Y%m%d_%H%M%S"): the clock to the second
Timestamp == clock

\* backup_ref.set({...}) on db.collection('backups').document(timestamp)
SetBackup(timestamp, vehicles_data) ==
    [t \in (DOMAIN backups) \cup {timestamp} |->
        IF t = timestamp
        THEN [timestamp |-> timestamp, vehicles |-> vehicles_data]
        ELSE backups[t]]

CreateBackup(s) ==
    /\ pc[s] = "page"
    /\ handle[s] = NoHandle
    /\ ops < MaxOps
    /\ ops' = ops + 1
    /\ \E init \in InitOutcomes, raises \in BOOLEAN :
        /\ apps' = (apps \/ init)
        /\ IF init /\ ~raises
           THEN /\ backups' = SetBackup(Timestamp, Records(df[s]))
                /\ handle' = [handle EXCEPT ![s] = [state |-> "ok", ts |-> Timestamp]]
           ELSE /\ handle' = [handle EXCEPT ![s] = FailedHandle]
                /\ UNCHANGED backups
    /\ UNCHANGED <<vehicles, clock, cache, pc, df, req, result, call>>

\* a second passes
Tick ==
    /\ clock < MaxClock
    /\ clock' = clock + 1
    /\ UNCHANGED <<apps, vehicles, backups, cache, pc, df, req, result, handle, ops, call>>

\* update_vehicle called directly, with a VIN of the caller's choosing
Patches == {[Remark |-> ""]}

UpdateCall(s) ==
    /\ pc[s] = "page"
    /\ \E vin \in {VinA, VinB}, vehicle_data \in Patches :
           UpdateVehicle(s, "update", vin, vehicle_data)
    /\ UNCHANGED <<vehicles, backups, clock, cache, handle, call>>

\* page "Add New Vehicle" with the lookup box ticked and a valid VIN:
\* fetch_vehicle_details sends requests.get(url) and waits for the answer
LookupSend(s) ==
    /\ pc[s] = "page"
    /\ \E vin \in VinInputs, make0 \in Makes, mode0 \in Modes :
        /\ vin # BlankVin /\ validate_vin(vin)
        /\ pc' = [pc EXCEPT ![s] = "lookup"]
        /\ req' = [req EXCEPT ![s] = Request("lookup", vin, <<make0, mode0>>, NoDoc)]
        /\ result' = [result EXCEPT ![s] = "pending"]
    /\ UNCHANGED <<apps, vehicles, backups, clock, cache, df, handle, ops, call>>

\* the answer arrives: a 200 with the details, or another status or an
\* exception, which give None; the run goes on with the form
LookupAnswer(s) ==
    /\ pc[s] = "lookup"
    /\ \E details \in LookupAnswers :
           AddVehicleForm(s, req[s].vin, req[s].data[1], req[s].data[2], details)
    /\ UNCHANGED <<vehicles, backups, clock, cache, handle, call>>

Next ==
    \/ \E s \in Sessions : Load(s)
    \/ Expire
    \/ \E s \in Sessions : Render(s)
    \/ \E s \in Sessions : AddSubmit(s)
    \/ \E s \in Sessions : AddInsert(s)
    \/ \E s \in Sessions : EditSubmit(s)
    \/ \E s \in Sessions : SoldSubmit(s)
    \/ \E s \in Sessions : UpdWrite(s)
    \/ \E s \in Sessions : ClearCache(s)

Spec == Init /\ [][Next]_vars

\* the callers of create_backup: load_data, create_backup on the frame, then
\* the page "Add New Vehicle"
NextApi ==
    \/ \E s \in Sessions : Load(s)
    \/ Expire
    \/ \E s \in Sessions : Render(s)
    \/ \E s \in Sessions : CreateBackup(s)
    \/ Tick
    \/ \E s \in Sessions : AddSubmit(s)
    \/ \E s \in Sessions : AddInsert(s)
    \/ \E s \in Sessions : ClearCache(s)

SpecApi == Init /\ [][NextApi]_vars

\* main() together with a caller of update_vehicle
NextUpdate ==
    \/ \E s \in Sessions : Load(s)
    \/ Expire
    \/ \E s \in Sessions : Render(s)
    \/ \E s \in Sessions : AddSubmit(s)
    \/ \E s \in Sessions : AddInsert(s)
    \/ \E s \in Sessions : EditSubmit(s)
    \/ \E s \in Sessions : SoldSubmit(s)
    \/ \E s \in Sessions : UpdateCall(s)
    \/ \E s \in Sessions : UpdWrite(s)
    \/ \E s \in Sessions : ClearCache(s)

SpecUpdate == Init /\ [][NextUpdate]_vars

\* creates that look their VIN up.  A run of main() that has a step of its
\* own to take takes it (the thread runs on; a Firestore call returns or
\* raises); nothing makes the answer of the lookup arrive: requests.get is
\* called without a timeout
NextLookup ==
    \/ \E s \in Sessions : Load(s)
    \/ Expire
    \/ \E s \in Sessions : Render(s)
    \/ \E s \in Sessions : LookupSend(s)
    \/ \E s \in Sessions : LookupAnswer(s)
    \/ \E s \in Sessions : AddInsert(s)
    \/ \E s \in Sessions : ClearCache(s)

RunsOn(s) == Render(s) \/ LookupSend(s) \/ AddInsert(s) \/ ClearCache(s)

SpecLookup == Init /\ [][NextLookup]_vars /\ \A s \in Sessions : WF_vars(RunsOn(s))

---------------------------------------------------------------------------
(* validate_vin and calculate_market_value called directly, on arguments   *)
(* main() does not produce: text in a cost field, negative numbers, VINs   *)
(* of any length and with any last character                               *)

\* how far past 17 characters the VIN arguments go
MaxExtra == 2

\* the bodies of the VIN arguments: a character of the class, a digit, an
\* excluded letter, a lower-case letter
VinBodies == {"A", "7", "I", "q"}

\* what a VIN argument ends with
VinTails == {<< >>, <<"Z">>, <<"O">>, <<"\n">>, <<" ">>}

VinArgs ==
    {Repeat(c, n) \o tail : c \in VinBodies, n \in 0..(VinLength + MaxExtra - 1),
                            tail \in VinTails}

VehicleCostArgs == {NoInput, Blank, BadText, Num(0), Num(Dollars(5000)), Num(-Dollars(1))}
PartsCostArgs == {Blank, BadText, Num(Dollars(800)), Num(-Dollars(1))}
LabourCostArgs == {Blank, BadText, Num(Dollars(200))}
MarkupArgs == {Blank, BadText, Num(0), Num(10), Num(-10)}
ManualArgs == {NoInput, Blank, BadText, Num(0), Num(Dollars(7000))}

Calculation(vehicle_cost, parts_cost, labour_cost, markup, manual) ==
    [vehicle_cost |-> vehicle_cost, parts_cost |-> parts_cost,
     labour_cost |-> labour_cost, markup |-> markup, manual |-> manual]

CalculationArgs ==
    {Calculation(v, p, l, m, o) : v \in VehicleCostArgs, p \in PartsCostArgs,
                                  l \in LabourCostArgs, m \in MarkupArgs,
                                  o \in ManualArgs}

Calls ==
    {[fn |-> "validate_vin", args |-> vin, done |-> FALSE, ret |-> << >>] :
        vin \in VinArgs}
    \cup
    {[fn |-> "calculate_market_value", args |-> a, done |-> FALSE, ret |-> << >>] :
        a \in CalculationArgs}

InitCalls ==
    /\ apps = FALSE
    /\ vehicles = << >>
    /\ backups = << >>
    /\ clock = 0
    /\ cache = NoCache
    /\ pc = [s \in Sessions |-> "start"]
    /\ df = [s \in Sessions |-> EmptyFrame]
    /\ req = [s \in Sessions |-> NoReq]
    /\ result = [s \in Sessions |-> "none"]
    /\ handle = [s \in Sessions |-> NoHandle]
    /\ ops = 0
    /\ call \in Calls

CallValidateVin ==
    /\ call.fn = "validate_vin"
    /\ ~call.done
    /\ call' = [call EXCEPT !.done = TRUE, !.ret = validate_vin(call.args)]
    /\ UNCHANGED <<apps, vehicles, backups, clock, cache, pc, df, req, result, handle, ops>>

CallCalculateMarketValue ==
    /\ call.fn = "calculate_market_value"
    /\ ~call.done
    /\ call' = [call EXCEPT !.done = TRUE,
                            !.ret = calculate_market_value(call.args.vehicle_cost,
                                        call.args.parts_cost, call.args.labour_cost,
                                        call.args.markup, call.args.manual)]
    /\ UNCHANGED <<apps, vehicles, backups, clock, cache, pc, df, req, result, handle, ops>>

NextCalls ==
    \/ CallValidateVin
    \/ CallCalculateMarketValue

SpecCalls == InitCalls /\ [][NextCalls]_vars

---------------------------------------------------------------------------
(* The claims *)

\* the session takes a step of its run of main()
Steps(s) == pc'[s] # pc[s]

\* every mutation that wrote has also cleared the cache
NoClearPending == \A s \in Sessions : pc[s] # "clear"

VinPresent(vin) == \E i \in DOMAIN vehicles : vehicles[i]["VIN"] = vin

SoldFields(doc) ==
    [k \in {"Sold_Price", "Sold_Date", "Profit", "Profit_Percentage", "Sale_Notes"}
              \cap DOMAIN doc |-> doc[k]]

\* C1: in every reachable state of the store no two vehicle documents carry
\* the same VIN.
C1_VinUnique ==
    \A i, j \in DOMAIN vehicles :
        vehicles[i]["VIN"] = vehicles[j]["VIN"] => i = j

\* C2: of two creates with the same VIN that are in flight together, at most
\* one succeeds: never do two sessions both hold the outcome "ok" for a
\* create of the same VIN.
C2_OneCreateWins ==
    \A s, t \in Sessions :
        (/\ s # t
         /\ req[s].op = "add" /\ req[t].op = "add"
         /\ req[s].vin = req[t].vin
         /\ result[s] = "ok")
        => result[t] # "ok"

\* C3: Sold is terminal: no step changes the stored status of a document
\* whose stored status is Sold.
C3_SoldTerminal ==
    [][\A i \in DOMAIN vehicles :
          vehicles[i]["Status"] = "Sold" => vehicles'[i]["Status"] = "Sold"]_vars

\* C4: a markSold whose write reaches a document that is already stored as
\* Sold does not succeed and leaves the document's sale fields as they were.
C4_AlreadySoldRejected ==
    [][\A s \in Sessions :
          (/\ pc[s] = "upd_write" /\ req[s].op = "sold" /\ Steps(s)
           /\ vehicles[req[s].doc]["Status"] = "Sold")
          => /\ result'[s] # "ok"
             /\ SoldFields(vehicles'[req[s].doc]) = SoldFields(vehicles[req[s].doc])]_vars

\* C5: whenever a step changes the vehicles collection, the backups
\* collection already holds a snapshot of the collection as it was just
\* before that step.
C5_BackupBeforeWrite ==
    [][vehicles' # vehicles
          => \E t \in DOMAIN backups : backups[t].vehicles = Records(vehicles)]_vars

\* C6: once every successful mutation has returned (its cache clear is done),
\* a read that load_data serves from its cache returns the durable state.
C6_NoStaleRead ==
    [][\A s \in Sessions :
          (pc[s] = "start" /\ Steps(s) /\ cache.valid /\ NoClearPending)
          => df'[s] = vehicles]_vars

\* C7: every stored document's Cost and Price agree with the cost inputs and
\* markup that the next load reads back from that document.
C7_DerivedConsistent ==
    \A i \in DOMAIN vehicles :
        LET d == vehicles[i]
        IN  /\ d["Cost"] = d["VEHCLE COST"] + d["Parts Cost"] + d["Labour Cost"]
            /\ d["Price"] * 100 = d["Cost"] * (100 + d["Mark Up"])

\* C8: mutating operations exclude one another: at most one session is
\* between the store query and the store write of a create, update or
\* markSold.
C8_MutualExclusion ==
    Cardinality({s \in Sessions : pc[s] \in {"add_insert", "upd_write"}}) <= 1

\* C9 as stated: a create whose VIN is in the store ends with the
\* duplicate-VIN error, changes no document and leaves the cache alone.
C9_DuplicateAlwaysDuplicateVin ==
    [][\A s \in Sessions :
          (pc[s] = "page" /\ req'[s].op = "add" /\ VinPresent(req'[s].vin))
          => /\ result'[s] = "exists"
             /\ vehicles' = vehicles
             /\ cache' = cache]_vars

\* C9 as amended: a create whose VIN is in the store always fails, changes
\* no document and leaves the cache alone; the failure is the duplicate-VIN
\* error, unless a required field is missing (reported first) or the store
\* cannot be reached (reported as such).
C9_DuplicateCreateFails ==
    [][\A s \in Sessions :
          (pc[s] = "page" /\ req'[s].op = "add" /\ VinPresent(req'[s].vin))
          => /\ result'[s] \in {"exists", "required", "init_failed", "error"}
             /\ pc'[s] = "start"
             /\ vehicles' = vehicles
             /\ cache' = cache]_vars

\* C9 witness: a create was refused because its VIN is in the store.
C9_Witness ==
    \E s \in Sessions :
        req[s].op = "add" /\ result[s] = "exists" /\ VinPresent(req[s].vin)

\* C10: an operation whose create_backup returned no handle does not write:
\* its write step leaves the vehicles collection unchanged.
C10_FailClosed ==
    [][\A s \in Sessions :
          (/\ handle[s] = FailedHandle
           /\ pc[s] \in {"add_insert", "upd_write"} /\ Steps(s))
          => vehicles' = vehicles]_vars

\* C11: backups are append-only: no step removes a backup or changes what a
\* stored backup holds, also when two snapshots fall in the same second.
C11_BackupsAppendOnly ==
    [][\A t \in DOMAIN backups :
          t \in DOMAIN backups' /\ backups'[t] = backups[t]]_vars

\* C12: a create, update or markSold that ends because initialize_firebase
\* failed or a Firestore call raised reports the failure and ends its run
\* with the vehicles collection and the cache as they were.
C12_FailureChangesNothing ==
    [][\A s \in Sessions :
          (Steps(s) /\ result'[s] \in {"init_failed", "error"})
          => /\ pc'[s] = "start"
             /\ vehicles' = vehicles
             /\ cache' = cache]_vars

\* C12 witness: a markSold failed at the store while the store holds
\* documents, and a create failed at the store.
C12_Witness ==
    \E s, t \in Sessions :
        /\ req[s].op = "sold" /\ result[s] = "error"
        /\ req[t].op = "add" /\ result[t] \in {"init_failed", "error"}
        /\ vehicles # << >>

\* C13: an operation that ends in a validation error (a required field is
\* missing, the VIN is invalid, or the VIN of an update is not in the store)
\* ends its run with the vehicles collection and the cache as they were.
C13_ValidationChangesNothing ==
    [][\A s \in Sessions :
          (Steps(s) /\ result'[s] \in {"required", "invalid_vin", "not_found"})
          => /\ pc'[s] = "start"
             /\ vehicles' = vehicles
             /\ cache' = cache]_vars

\* C13 witness: an update was refused because its VIN is not in a store that
\* holds documents, and a create was refused for its VIN's syntax.
C13_Witness ==
    \E s, t \in Sessions :
        /\ req[s].op = "update" /\ result[s] = "not_found"
        /\ req[t].op = "add" /\ result[t] = "invalid_vin"
        /\ vehicles # << >> /\ cache.valid

\* a cost or markup argument that is absent, blank or a number >= 0
NonNegative(x) == x.kind \in {"none", "blank"} \/ (x.kind = "num" /\ x.val >= 0)

\* the number an argument stands for, blank counted as 0
ValueOf(x) == IF x.kind = "num" THEN x.val ELSE 0

Calculated == call.fn = "calculate_market_value" /\ call.done

\* C14: for non-negative costs and markup, blank counted as 0, and no
\* override, calculate_market_value returns cost = vehicle + parts + labour,
\* price = cost * (1 + markup/100) and market value = price * 1.1.
C14_PricingFormula ==
    (/\ Calculated
     /\ \A x \in {call.args.vehicle_cost, call.args.parts_cost,
                   call.args.labour_cost, call.args.markup} : NonNegative(x)
     /\ call.args.manual.kind \in {"none", "blank"})
    => /\ call.ret.ok
       /\ call.ret.cost = ValueOf(call.args.vehicle_cost)
                           + ValueOf(call.args.parts_cost)
                           + ValueOf(call.args.labour_cost)
       /\ call.ret.price * 100 = call.ret.cost * (100 + ValueOf(call.args.markup))
       /\ call.ret.market_value * 10 = call.ret.price * 11

\* C14 witness: costs 5000, 800 and 200 with markup 10 and no override gave
\* cost 6000, price 6600 and market value 7260.
C14_Witness ==
    /\ Calculated
    /\ call.args = Calculation(Num(Dollars(5000)), Num(Dollars(800)),
                                Num(Dollars(200)), Num(10), NoInput)
    /\ call.ret.cost = Dollars(6000)
    /\ call.ret.price = Dollars(6600)
    /\ call.ret.market_value = Dollars(7260)

\* C15: when the cost and markup arguments parse, the market value is the
\* override itself if the override parses; price * 1.1 with a warning, and
\* still a success, if it is present and does not parse; price * 1.1 without
\* a warning if it is absent or blank.  Cost and price are those of the cost
\* and markup arguments, whatever the override.
C15_Override ==
    (/\ Calculated
     /\ \A x \in {call.args.vehicle_cost, call.args.parts_cost,
                   call.args.labour_cost, call.args.markup} : x.kind # "bad")
    => /\ call.ret.ok
       /\ call.ret.cost = ValueOf(call.args.vehicle_cost)
                           + ValueOf(call.args.parts_cost)
                           + ValueOf(call.args.labour_cost)
       /\ call.ret.price * 100 = call.ret.cost * (100 + ValueOf(call.args.markup))
       /\ call.args.manual.kind = "num"
            => call.ret.market_value = call.args.manual.val /\ ~call.ret.warning
       /\ call.args.manual.kind = "bad"
            => call.ret.market_value * 10 = call.ret.price * 11 /\ call.ret.warning
       /\ call.args.manual.kind \in {"none", "blank"}
            => call.ret.market_value * 10 = call.ret.price * 11 /\ ~call.ret.warning

\* C15 witness: an override that does not parse gave a success with the
\* default market value and the warning, and one that parses was returned.
C15_Witness ==
    /\ Calculated
    /\ call.args.vehicle_cost = Num(Dollars(5000))
    /\ call.args.markup = Num(10)
    /\ \/ /\ call.args.manual = BadText
          /\ call.ret.ok /\ call.ret.warning
          /\ call.ret.market_value * 10 = call.ret.price * 11
       \/ /\ call.args.manual = Num(Dollars(7000))
          /\ call.ret.market_value = Dollars(7000)
          /\ call.ret.market_value * 10 # call.ret.price * 11

\* C16: validate_vin returns true exactly for the strings of 17 characters
\* that are all of the class [A-HJ-NPR-Z0-9].
C16_ValidateVinExact ==
    (call.fn = "validate_vin" /\ call.done)
    => (call.ret <=> /\ Len(call.args) = VinLength
                     /\ \A i \in 1..Len(call.args) : call.args[i] \in VinAlphabet)

\* C17: a successful markSold write, on a store whose VINs are unique, stores
\* the status Sold, profit = sold price - cost and profit percent = profit /
\* cost * 100 (0 for cost 0), with the cost the document holds at that write.
C17_ProfitFromStoredCost ==
    [][\A s \in Sessions :
          (/\ pc[s] = "upd_write" /\ req[s].op = "sold" /\ result'[s] = "ok"
           /\ C1_VinUnique)
          => LET sold == vehicles'[req[s].doc]
                 cost == vehicles[req[s].doc]["Cost"]
             IN  /\ sold["Status"] = "Sold"
                 /\ sold["Profit"] = sold["Sold_Price"] - cost
                 /\ sold["Profit_Percentage"] = ProfitPercentage(sold["Profit"], cost)]_vars

\* a VIN of 17 characters of the class
WellFormed(vin) ==
    Len(vin) = VinLength /\ \A i \in 1..Len(vin) : vin[i] \in VinAlphabet

C19_RejectsInvalidNumeric ==
    (/\ Calculated
     /\ \E x \in {call.args.vehicle_cost, call.args.parts_cost,
                   call.args.labour_cost, call.args.markup} : ~NonNegative(x))
    => ~call.ret.ok

\* C20: a create that waits for the answer of its VIN lookup eventually goes
\* on, to a report or to its insert.
C20_LookupEnds ==
    \A s \in Sessions : (pc[s] = "lookup") ~> (pc[s] # "lookup")

\* a field name that key.replace(" ", "_") changes: it holds a space
HasSpace(key) == SanitizedKey(key) # key

\* C21: no field name of a stored vehicle document holds a space.
C21_NoSpaceInFieldNames ==
    \A i \in DOMAIN vehicles : \A key \in DOMAIN vehicles[i] : ~HasSpace(key)

\* C22: the write of an update or markSold leaves the set of documents as it
\* is, changes no document but the one it found, and that document carries
\* the given VIN before and after the write.
C22_UpdateFrame ==
    [][\A s \in Sessions :
          (pc[s] = "upd_write" /\ Steps(s))
          => /\ DOMAIN vehicles' = DOMAIN vehicles
             /\ \A i \in DOMAIN vehicles :
                   i # req[s].doc => vehicles'[i] = vehicles[i]
             /\ vehicles[req[s].doc]["VIN"] = req[s].vin
             /\ vehicles'[req[s].doc]["VIN"] = req[s].vin]_vars

\* C22 witness: a store of two documents with different VINs, of which an
\* edit or a sale has changed one.
C22_Witness ==
    \E s \in Sessions :
        /\ pc[s] = "clear" /\ req[s].op \in {"edit", "sold"} /\ result[s] = "ok"
        /\ Cardinality(DOMAIN vehicles) = 2
        /\ C1_VinUnique
        /\ \E i \in DOMAIN vehicles :
              /\ i # req[s].doc
              /\ vehicles[i]["Status"] # vehicles[req[s].doc]["Status"]

\* C23: the cache is only ever filled with the result of a successful load:
\* a step that fills the cache fills it with the documents of the store.
C23_CacheHoldsSuccessfulLoad ==
    [][(~cache.valid /\ cache'.valid) => cache'.frame = vehicles]_vars

\* the fields the Edit Vehicle form reads from the row and writes back
PatchedFields ==
    {"Model Year", "Mileage", "VEHCLE COST", "Parts Cost", "Labour Cost",
     "Title State", "Mark Up", "Market Value"}

\* C25: after the successful write of an edit the stored document, which is
\* what the next load returns, holds each value supplied by the edit under
\* the field name the forms read it from.
C25_UpdateRoundTrip ==
    [][\A s \in Sessions :
          (pc[s] = "upd_write" /\ req[s].op = "edit" /\ result'[s] = "ok")
          => \A key \in PatchedFields :
                vehicles'[req[s].doc][key] = req[s].data[SanitizedKey(key)]]_vars

\* C24: every stored vehicle document has a model year from 1900 to the
\* year after the current one.
C24_ModelYearInRange ==
    \A i \in DOMAIN vehicles :
        vehicles[i]["Model Year"] \in MinModelYear..(CurrentYear + 1)

=============================================================================
